---- MODULE Spec2Model ----
(***************************************************************************)
(* atlas_worker/config.py: the worker's Settings record and the            *)
(* module-level singleton `settings = Settings()`.                         *)
(*                                                                         *)
(* Settings is a pydantic-settings BaseSettings subclass.  Constructing it *)
(* reads the process environment and the file named by env_file, merges    *)
(* the two (environment first), and validates every declared field against *)
(* its annotation; a field no source defines takes its default.  The       *)
(* model follows that construction: the options of model_config decide how *)
(* keys are matched, how the none-string is parsed and what happens to     *)
(* undeclared keys; the annotations decide the coercion of each value.     *)
(***************************************************************************)
EXTENDS Integers, Sequences, FiniteSets, TLC

VARIABLES environ, files, pc, settings, errors, writes

vars == <<environ, files, pc, settings, errors, writes>>

(***************************************************************************)
(* Python values.  One record shape for every value, so that any two       *)
(* values can be compared: t is the Python type, i the number of an int,   *)
(* s the text of a str or of a Path.                                       *)
(***************************************************************************)
PyNone == [t |-> "NoneType", i |-> 0, s |-> ""]
PyStr(str) == [t |-> "str", i |-> 0, s |-> str]
PyInt(n) == [t |-> "int", i |-> n, s |-> ""]
PyPath(str) == [t |-> "Path", i |-> 0, s |-> str]

(***************************************************************************)
(* Text helpers.  Strings are sequences of characters; Char(s, k) is the   *)
(* one-character string at position k.                                     *)
(***************************************************************************)
Char(s, k) == SubSeq(s, k, k)

IsSpace(c) == c \in {" ", "\t", "\n", "\r"}

IsDigit(c) == c \in {"0", "1", "2", "3", "4", "5", "6", "7", "8", "9"}

DigitVal(c) ==
    CASE c = "0" -> 0 [] c = "1" -> 1 [] c = "2" -> 2 [] c = "3" -> 3
      [] c = "4" -> 4 [] c = "5" -> 5 [] c = "6" -> 6 [] c = "7" -> 7
      [] c = "8" -> 8 [] c = "9" -> 9

RECURSIVE LStrip(_)
LStrip(s) ==
    IF Len(s) > 0 /\ IsSpace(Char(s, 1)) THEN LStrip(SubSeq(s, 2, Len(s))) ELSE s

RECURSIVE RStrip(_)
RStrip(s) ==
    IF Len(s) > 0 /\ IsSpace(Char(s, Len(s)))
    THEN RStrip(SubSeq(s, 1, Len(s) - 1))
    ELSE s

Trim(s) == RStrip(LStrip(s))

AllDigits(s) == Len(s) > 0 /\ \A k \in 1..Len(s) : IsDigit(Char(s, k))

RECURSIVE DigitsValue(_)
DigitsValue(s) ==
    IF Len(s) = 0 THEN 0
    ELSE 10 * DigitsValue(SubSeq(s, 1, Len(s) - 1)) + DigitVal(Char(s, Len(s)))

UpperLetters == "ABCDEFGHIJKLMNOPQRSTUVWXYZ"
LowerLetters == "abcdefghijklmnopqrstuvwxyz"

LowerChar(c) ==
    IF \E k \in 1..Len(UpperLetters) : Char(UpperLetters, k) = c
    THEN Char(LowerLetters, CHOOSE k \in 1..Len(UpperLetters) : Char(UpperLetters, k) = c)
    ELSE c

RECURSIVE Lower(_)
Lower(s) ==
    IF Len(s) = 0 THEN s ELSE LowerChar(Char(s, 1)) \o Lower(SubSeq(s, 2, Len(s)))

(***************************************************************************)
(* The declaration: model_config and the fifteen annotated fields.         *)
(***************************************************************************)
env_file == ".env"

\* Mutant: names are matched without regard to case (pydantic-settings' own default).
case_insensitive == FALSE

case_sensitive == TRUE

\* Mutant: undeclared variables are rejected (BaseSettings' own default).
extra_forbid == "forbid"

extra == "ignore"

env_parse_none_str == "None"

\* BaseSettings is not frozen unless model_config says so; Settings does not.
frozen == FALSE

Fields ==
    {"HTTP_BASE_URL", "HTTP_TIMEOUT", "ARGO_DAC", "LOCAL_STAGE_PATH",
     "PARQUET_STAGING_PATH", "ENVIRONMENT", "LOG_LEVEL", "PG_WRITE_URL",
     "DB_TIMEOUT", "S3_ACCESS_KEY", "S3_SECRET_KEY", "S3_BUCKET_NAME",
     "S3_ENDPOINT", "S3_REGION", "PARQUET_COMPRESSION"}

IntFields == {"HTTP_TIMEOUT", "DB_TIMEOUT"}

PathFields == {"LOCAL_STAGE_PATH", "PARQUET_STAGING_PATH"}

OptionalFields == {"PG_WRITE_URL", "S3_ACCESS_KEY", "S3_SECRET_KEY", "S3_ENDPOINT"}

StrFields == Fields \ (IntFields \cup PathFields \cup OptionalFields)

Annotation(f) ==
    CASE f \in IntFields -> "int"
      [] f \in PathFields -> "Path"
      [] f \in OptionalFields -> "Optional[str]"
      [] OTHER -> "str"

\* Mutant: the defaults of a development checkout (ENVIRONMENT "dev").
Default_dev(f) ==
    CASE f = "ENVIRONMENT" -> PyStr("dev")
      [] f \in {"HTTP_TIMEOUT", "DB_TIMEOUT"} -> PyInt(30)
      [] f \in {"PG_WRITE_URL", "S3_ACCESS_KEY", "S3_SECRET_KEY", "S3_ENDPOINT"} -> PyNone
      [] f = "HTTP_BASE_URL" -> PyStr("https://data-argo.ifremer.fr")
      [] f = "ARGO_DAC" -> PyStr("incois")
      [] f = "LOCAL_STAGE_PATH" -> PyPath("/tmp/raw_staging")
      [] f = "PARQUET_STAGING_PATH" -> PyPath("/tmp/parquet_staging")
      [] f = "LOG_LEVEL" -> PyStr("INFO")
      [] f = "S3_BUCKET_NAME" -> PyStr("atlas")
      [] f = "S3_REGION" -> PyStr("auto")
      [] f = "PARQUET_COMPRESSION" -> PyStr("snappy")

Default(f) ==
    CASE f = "HTTP_BASE_URL" -> PyStr("https://data-argo.ifremer.fr")
      [] f = "HTTP_TIMEOUT" -> PyInt(30)
      [] f = "ARGO_DAC" -> PyStr("incois")
      [] f = "LOCAL_STAGE_PATH" -> PyPath("/tmp/raw_staging")
      [] f = "PARQUET_STAGING_PATH" -> PyPath("/tmp/parquet_staging")
      [] f = "ENVIRONMENT" -> PyStr("prod")
      [] f = "LOG_LEVEL" -> PyStr("INFO")
      [] f = "PG_WRITE_URL" -> PyNone
      [] f = "DB_TIMEOUT" -> PyInt(30)
      [] f = "S3_ACCESS_KEY" -> PyNone
      [] f = "S3_SECRET_KEY" -> PyNone
      [] f = "S3_BUCKET_NAME" -> PyStr("atlas")
      [] f = "S3_ENDPOINT" -> PyNone
      [] f = "S3_REGION" -> PyStr("auto")
      [] f = "PARQUET_COMPRESSION" -> PyStr("snappy")

(***************************************************************************)
(* Coercion of a source value to a field's annotation (pydantic's lax      *)
(* mode, which a settings class validates in).                             *)
(*                                                                         *)
(* int from str: surrounding whitespace is trimmed, then an optional sign  *)
(* and decimal digits are read; failing that, a fraction made only of      *)
(* zeros (".0", ".00") is stripped and the rest is read the same way.      *)
(* Digit-group underscores, which the parser also accepts, are not         *)
(* modelled: no input of the model holds one.                              *)
(***************************************************************************)
Unsigned(s) ==
    IF Len(s) > 0 /\ Char(s, 1) \in {"+", "-"} THEN SubSeq(s, 2, Len(s)) ELSE s

IsDecimalInteger(s) == AllDigits(Unsigned(s))

DecimalValue(s) ==
    IF Len(s) > 0 /\ Char(s, 1) = "-"
    THEN 0 - DigitsValue(Unsigned(s))
    ELSE DigitsValue(Unsigned(s))

DotAt(s) ==
    IF \E k \in 1..Len(s) : Char(s, k) = "."
    THEN CHOOSE k \in 1..Len(s) :
            Char(s, k) = "." /\ \A j \in 1..(k - 1) : Char(s, j) # "."
    ELSE 0

\* The text before a fraction of one or more zeros, or "" when s has no such fraction.
strip_decimal_zeros(s) ==
    LET d == DotAt(s) IN
    IF d > 0 /\ d < Len(s) /\ \A k \in (d + 1)..Len(s) : Char(s, k) = "0"
    THEN SubSeq(s, 1, d - 1)
    ELSE ""

str_as_int(s) ==
    LET t == Trim(s)
        z == strip_decimal_zeros(t)
    IN  IF IsDecimalInteger(t) THEN [ok |-> TRUE, value |-> DecimalValue(t)]
        ELSE IF IsDecimalInteger(z) THEN [ok |-> TRUE, value |-> DecimalValue(z)]
        ELSE [ok |-> FALSE, value |-> 0]

(***************************************************************************)
(* Path from str: pathlib keeps the components, so repeated and trailing   *)
(* separators and "." components vanish, and the empty path is ".".        *)
(***************************************************************************)
RECURSIVE PathParts(_, _)
PathParts(s, cur) ==
    IF Len(s) = 0 THEN IF cur \in {"", "."} THEN <<>> ELSE <<cur>>
    ELSE IF Char(s, 1) = "/"
         THEN (IF cur \in {"", "."} THEN <<>> ELSE <<cur>>)
                  \o PathParts(SubSeq(s, 2, Len(s)), "")
         ELSE PathParts(SubSeq(s, 2, Len(s)), cur \o Char(s, 1))

RECURSIVE JoinParts(_)
JoinParts(parts) ==
    IF Len(parts) = 0 THEN ""
    ELSE IF Len(parts) = 1 THEN parts[1]
    ELSE parts[1] \o "/" \o JoinParts(Tail(parts))

PathRoot(s) ==
    IF Len(s) >= 2 /\ SubSeq(s, 1, 2) = "//" /\ (Len(s) = 2 \/ Char(s, 3) # "/")
    THEN "//"
    ELSE IF Len(s) >= 1 /\ Char(s, 1) = "/" THEN "/" ELSE ""

PurePath(s) ==
    LET text == PathRoot(s) \o JoinParts(PathParts(s, ""))
    IN  IF text = "" THEN "." ELSE text

NoError == ""

\* Mutant: an int field whose text does not parse silently keeps the number 30.
Validate_int_fallback(annotation, input) ==
    CASE annotation = "int" ->
            IF input.t = "str" /\ str_as_int(input.s).ok
            THEN [value |-> PyInt(str_as_int(input.s).value), error |-> NoError]
            ELSE [value |-> PyInt(30), error |-> NoError]
      [] annotation = "Path" ->
            IF input.t = "str"
            THEN [value |-> PyPath(PurePath(input.s)), error |-> NoError]
            ELSE [value |-> input, error |-> "path_type"]
      [] annotation = "Optional[str]" -> [value |-> input, error |-> NoError]
      [] OTHER ->
            IF input.t = "str" THEN [value |-> input, error |-> NoError]
            ELSE [value |-> input, error |-> "string_type"]

\* Mutant: text is stripped of surrounding whitespace (str_strip_whitespace).
Validate_strip(annotation, input) ==
    CASE annotation = "int" ->
            IF input.t # "str" THEN [value |-> input, error |-> "int_type"]
            ELSE IF str_as_int(input.s).ok
                 THEN [value |-> PyInt(str_as_int(input.s).value), error |-> NoError]
                 ELSE [value |-> input, error |-> "int_parsing"]
      [] annotation = "Path" ->
            IF input.t = "str"
            THEN [value |-> PyPath(PurePath(input.s)), error |-> NoError]
            ELSE [value |-> input, error |-> "path_type"]
      [] annotation = "Optional[str]" ->
            IF input.t = "str" THEN [value |-> PyStr(Trim(input.s)), error |-> NoError]
            ELSE [value |-> input, error |-> NoError]
      [] OTHER ->
            IF input.t = "str" THEN [value |-> PyStr(Trim(input.s)), error |-> NoError]
            ELSE [value |-> input, error |-> "string_type"]

\* The outcome of validating one input against one annotation: the coerced
\* value, or the type of the error pydantic reports for it.
Validate(annotation, input) ==
    CASE annotation = "str" ->
            IF input.t = "str" THEN [value |-> input, error |-> NoError]
            ELSE [value |-> input, error |-> "string_type"]
      [] annotation = "int" ->
            IF input.t = "int" THEN [value |-> input, error |-> NoError]
            ELSE IF input.t # "str" THEN [value |-> input, error |-> "int_type"]
            ELSE IF str_as_int(input.s).ok
                 THEN [value |-> PyInt(str_as_int(input.s).value), error |-> NoError]
                 ELSE [value |-> input, error |-> "int_parsing"]
      [] annotation = "Path" ->
            IF input.t = "Path" THEN [value |-> input, error |-> NoError]
            ELSE IF input.t = "str"
                 THEN [value |-> PyPath(PurePath(input.s)), error |-> NoError]
                 ELSE [value |-> input, error |-> "path_type"]
      [] annotation = "Optional[str]" ->
            IF input.t \in {"NoneType", "str"} THEN [value |-> input, error |-> NoError]
            ELSE [value |-> input, error |-> "string_type"]

(***************************************************************************)
(* The settings sources.  Both read a mapping from variable name to text:  *)
(* the process environment, and the parsed content of env_file when that   *)
(* file exists.                                                            *)
(***************************************************************************)
EnvNoneType(str) == [t |-> "EnvNoneType", i |-> 0, s |-> str]

apply_case_sensitive(name) == IF case_sensitive THEN name ELSE Lower(name)

\* Mutant: the none-string is recognised in any letter case.
parse_env_none_str_anycase(value) ==
    IF Lower(value) = Lower(env_parse_none_str) THEN EnvNoneType(value) ELSE PyStr(value)

parse_env_none_str(value) ==
    IF value = env_parse_none_str THEN EnvNoneType(value) ELSE PyStr(value)

\* With case_sensitive the names are kept, so no two variables share a name.
parse_env_vars(env) ==
    LET names == {apply_case_sensitive(k) : k \in DOMAIN env}
    IN  [n \in names |->
            parse_env_none_str(env[CHOOSE k \in DOMAIN env : apply_case_sensitive(k) = n])]

field_env_name(f) == apply_case_sensitive(f)

\* One value per declared field the variables define; the none-string
\* becomes None here, whatever the field's annotation.
source_call(env_vars) ==
    LET found == {f \in Fields : field_env_name(f) \in DOMAIN env_vars}
    IN  [f \in found |->
            LET v == env_vars[field_env_name(f)]
            IN  IF v.t = "EnvNoneType" THEN PyNone ELSE v]

\* Mutant: the environment is read under an env_prefix of "ATLAS_".
EnvSettingsSource_prefixed(env) ==
    LET prefixed == {k \in DOMAIN env : Len(k) > 6 /\ SubSeq(k, 1, 6) = "ATLAS_"}
        bare(n) == CHOOSE k \in prefixed : SubSeq(k, 7, Len(k)) = n
    IN  source_call(parse_env_vars(
            [n \in {SubSeq(k, 7, Len(k)) : k \in prefixed} |-> env[bare(n)]]))

EnvSettingsSource(env) == source_call(parse_env_vars(env))

\* The dotenv source also hands on the non-empty variables of the file that
\* belong to no field; what becomes of them is up to `extra`.
DotEnvSettingsSource(fs) ==
    LET env_vars == IF env_file \in DOMAIN fs THEN parse_env_vars(fs[env_file]) ELSE <<>>
        data == source_call(env_vars)
        unused == {n \in DOMAIN env_vars :
                      /\ env_vars[n].s # ""
                      /\ n \notin DOMAIN data
                      /\ \A f \in Fields : field_env_name(f) # n}
    IN  [n \in DOMAIN data \cup unused |->
            IF n \in DOMAIN data THEN data[n] ELSE env_vars[n]]

deep_update(mapping, updating) ==
    [k \in DOMAIN mapping \cup DOMAIN updating |->
        IF k \in DOMAIN updating THEN updating[k] ELSE mapping[k]]

\* Mutant: the dotenv file takes priority over the environment.
settings_build_values_file_first(env, fs) ==
    deep_update(EnvSettingsSource(env), DotEnvSettingsSource(fs))

\* Sources in priority order: the environment, then the dotenv file.
settings_build_values(env, fs) ==
    deep_update(DotEnvSettingsSource(fs), EnvSettingsSource(env))

\* Mutant: PG_WRITE_URL is declared without a default, so it is required.
HasDefault_required(f) == f \in Fields \ {"PG_WRITE_URL"}

\* Every field of Settings is declared with a default.
HasDefault(f) == f \in Fields

\* Validation of the merged values: every field is validated, and all the
\* errors are reported together.
model_validate(state) ==
    LET result(f) ==
            IF f \in DOMAIN state THEN Validate(Annotation(f), state[f])
            ELSE IF HasDefault(f) THEN [value |-> Default(f), error |-> NoError]
            ELSE [value |-> PyNone, error |-> "missing"]
        field_errors ==
            {[loc |-> f, type |-> result(f).error,
              input |-> IF f \in DOMAIN state THEN state[f] ELSE PyNone] :
                f \in {g \in Fields : result(g).error # NoError}}
        extra_errors ==
            IF extra = "forbid"
            THEN {[loc |-> n, type |-> "extra_forbidden", input |-> state[n]] :
                    n \in DOMAIN state \ Fields}
            ELSE {}
        kept == IF extra = "allow" THEN Fields \cup DOMAIN state ELSE Fields
    IN  [errors |-> field_errors \cup extra_errors,
         values |-> [f \in kept |-> IF f \in Fields THEN result(f).value ELSE state[f]]]

Settings(env, fs) == model_validate(settings_build_values(env, fs))

(***************************************************************************)
(* The inputs of a run: what the process environment and the dotenv file   *)
(* define when the module is imported.  At most MaxDefs variables are      *)
(* defined in all; the file may be absent, present and empty, or present   *)
(* with definitions.  Each variable takes one of a few texts chosen for    *)
(* the annotation of the field it names.                                   *)
(***************************************************************************)
MaxDefs == 2

MaxWrites == 1

UnknownKeys == {"FOO_BAR", "http_timeout", "Argo_Dac"}

Keys == Fields \cup UnknownKeys

Samples(k) ==
    CASE k \in StrFields -> {"None", "", " aoml "}
      [] k \in IntFields -> {"None", "", "42", "thirty", " 7.0 "}
      [] k \in PathFields -> {"None", "/mnt//stage/"}
      [] k \in OptionalFields -> {"None", "none", "", "s3cr3t"}
      [] k = "http_timeout" -> {"thirty", "42"}
      [] k = "Argo_Dac" -> {"aoml"}
      [] OTHER -> {"baz"}

AssignedValues == {PyInt(5), PyStr("dev")}

SourceKeys == {"environ", "file"} \X Keys

RECURSIVE SubsetsUpTo(_, _)
SubsetsUpTo(S, n) ==
    IF n = 0 \/ S = {} THEN {{}}
    ELSE LET x == CHOOSE y \in S : TRUE
             rest == S \ {x}
         IN  SubsetsUpTo(rest, n) \cup {c \cup {x} : c \in SubsetsUpTo(rest, n - 1)}

RECURSIVE Assignments(_)
Assignments(K) ==
    IF K = {} THEN {<<>>}
    ELSE LET k == CHOOSE y \in K : TRUE
         IN  {(k :> v) @@ g : v \in Samples(k), g \in Assignments(K \ {k})}

Unbound == <<>>

Init ==
    \E chosen \in SubsetsUpTo(SourceKeys, MaxDefs) :
        LET ek == {k \in Keys : <<"environ", k>> \in chosen}
            fk == {k \in Keys : <<"file", k>> \in chosen}
        IN  \E e \in Assignments(ek), c \in Assignments(fk), present \in BOOLEAN :
                /\ IF present THEN TRUE ELSE fk = {}
                /\ environ = e
                /\ files = IF present THEN (env_file :> c) ELSE <<>>
                /\ pc = "start"
                /\ settings = Unbound
                /\ errors = {}
                /\ writes = 0

(***************************************************************************)
(* `settings = Settings()` at import.  Either the record is bound, or the  *)
(* constructor raises pydantic's ValidationError with the collected errors *)
(* and the name stays unbound.                                             *)
(***************************************************************************)
Construct ==
    /\ pc = "start"
    /\ Settings(environ, files).errors = {}
    /\ settings' = Settings(environ, files).values
    /\ pc' = "loaded"
    /\ UNCHANGED <<environ, files, errors, writes>>

ConstructRaises ==
    /\ pc = "start"
    /\ Settings(environ, files).errors # {}
    /\ errors' = Settings(environ, files).errors
    /\ pc' = "failed"
    /\ UNCHANGED <<environ, files, settings, writes>>

(***************************************************************************)
(* What a consumer of the singleton can do with it: read an attribute, or  *)
(* assign one.  Assignment to a declared field of a model that is not      *)
(* frozen stores the value as given (validate_assignment is off); on a     *)
(* frozen model it raises and stores nothing.                              *)
(***************************************************************************)
GetAttr(f) ==
    /\ pc = "loaded"
    /\ f \in DOMAIN settings
    /\ UNCHANGED vars

SetAttr(f, v) ==
    /\ pc = "loaded"
    /\ f \in DOMAIN settings
    /\ writes < MaxWrites
    /\ writes' = writes + 1
    /\ settings' = IF frozen THEN settings ELSE [settings EXCEPT ![f] = v]
    /\ UNCHANGED <<environ, files, pc, errors>>

Next == Construct \/ ConstructRaises

Spec == Init /\ [][Next]_vars

NextConsumers ==
    \/ Construct
    \/ ConstructRaises
    \/ \E f \in Fields : GetAttr(f)
    \/ \E f \in Fields, v \in AssignedValues : SetAttr(f, v)

SpecConsumers == Init /\ [][NextConsumers]_vars

(***************************************************************************)
(* Vocabulary of the properties.                                           *)
(***************************************************************************)
EnvDefines(k) == k \in DOMAIN environ

FileDefines(k) == env_file \in DOMAIN files /\ k \in DOMAIN files[env_file]

IsSupplied(k) == EnvDefines(k) \/ FileDefines(k)

\* The text in force for a key: the environment's, else the file's.
Supplied(k) == IF EnvDefines(k) THEN environ[k] ELSE files[env_file][k]

\* The value a field holds for an accepted text.
Coerced(f, text) ==
    Validate(Annotation(f), IF text = "None" THEN PyNone ELSE PyStr(text)).value

\* The defaults of the specification's data-model table.
TableDefault(f) ==
    CASE f = "HTTP_BASE_URL" -> PyStr("https://data-argo.ifremer.fr")
      [] f = "HTTP_TIMEOUT" -> PyInt(30)
      [] f = "ARGO_DAC" -> PyStr("incois")
      [] f = "LOCAL_STAGE_PATH" -> PyPath("/tmp/raw_staging")
      [] f = "PARQUET_STAGING_PATH" -> PyPath("/tmp/parquet_staging")
      [] f = "ENVIRONMENT" -> PyStr("prod")
      [] f = "LOG_LEVEL" -> PyStr("INFO")
      [] f = "DB_TIMEOUT" -> PyInt(30)
      [] f = "S3_BUCKET_NAME" -> PyStr("atlas")
      [] f = "S3_REGION" -> PyStr("auto")
      [] f = "PARQUET_COMPRESSION" -> PyStr("snappy")
      [] f \in {"PG_WRITE_URL", "S3_ACCESS_KEY", "S3_SECRET_KEY", "S3_ENDPOINT"} -> PyNone

\* How an error message shows the input it rejected.
Shown(v) == IF v.t = "NoneType" THEN "None" ELSE v.s

\* A decimal integer as int() reads one: optional sign and digits, blanks around.
StrictDecimal(text) == IsDecimalInteger(Trim(text))

\* A mapping without the keys of `drop`.
Without(env, drop) == [k \in DOMAIN env \ drop |-> env[k]]

FilesWithout(drop) == [n \in DOMAIN files |-> Without(files[n], drop)]

\* Keys that differ from a declared field's name in letter case only.
CaseVariants == {k \in Keys \ Fields : \E f \in Fields : Lower(k) = Lower(f)}

\* The outcome of the import is that of Settings() on the inputs env and fs.
OutcomeIs(env, fs) ==
    /\ pc = "loaded" => Settings(env, fs).errors = {} /\ settings = Settings(env, fs).values
    /\ pc = "failed" => errors # {} /\ errors = Settings(env, fs).errors

(***************************************************************************)
(* C1.  Precedence: in a loaded record every field holds the value of the  *)
(* process environment when the environment defines its key, else the      *)
(* value of the .env file when the file defines it, else its default.      *)
(***************************************************************************)
C1_Precedence ==
    pc = "loaded" =>
        \A f \in Fields :
            /\ EnvDefines(f) => settings[f] = Coerced(f, environ[f])
            /\ ~EnvDefines(f) /\ FileDefines(f) =>
                    settings[f] = Coerced(f, files[env_file][f])
            /\ ~EnvDefines(f) /\ ~FileDefines(f) => settings[f] = TableDefault(f)

C1_Witness ==
    /\ pc = "loaded"
    /\ \E f \in Fields :
          /\ EnvDefines(f) /\ FileDefines(f)
          /\ environ[f] # files[env_file][f]
          /\ settings[f] = Coerced(f, environ[f])
          /\ settings[f] # Coerced(f, files[env_file][f])

(***************************************************************************)
(* C2.  With an empty environment and no .env file the import succeeds and *)
(* the record has exactly the fifteen fields, each at the default of the   *)
(* data-model table.                                                       *)
(***************************************************************************)
C2_Defaults ==
    (environ = <<>> /\ files = <<>>) =>
        /\ pc # "failed"
        /\ pc = "loaded" =>
              /\ DOMAIN settings = Fields
              /\ Cardinality(DOMAIN settings) = 15
              /\ \A f \in Fields : settings[f] = TableDefault(f)

C2_Witness ==
    /\ pc = "loaded" /\ environ = <<>> /\ files = <<>>
    /\ settings["HTTP_TIMEOUT"] = PyInt(30)
    /\ settings["ENVIRONMENT"] = PyStr("prod")
    /\ settings["S3_ENDPOINT"] = PyNone

(***************************************************************************)
(* C3, as claimed.  An integer field whose text in force is not a decimal  *)
(* integer makes the import fail with an error that names the field and    *)
(* the text, and no record is bound.                                       *)
(***************************************************************************)
C3_Original ==
    \A f \in IntFields :
        (pc # "start" /\ IsSupplied(f) /\ ~StrictDecimal(Supplied(f))) =>
            /\ pc = "failed"
            /\ settings = Unbound
            /\ \E e \in errors : e.loc = f /\ Shown(e.input) = Supplied(f)

(***************************************************************************)
(* C3, amended.  An integer field whose text in force the integer coercion *)
(* rejects makes the import fail with an error entry that names the field  *)
(* and the text, and no record is bound.  The coercion accepts more than   *)
(* decimal integers: a fraction of zeros, as in 7.0, is accepted too.      *)
(***************************************************************************)
C3_IntRejected ==
    \A f \in IntFields :
        (pc # "start" /\ IsSupplied(f) /\ ~str_as_int(Supplied(f)).ok) =>
            /\ pc = "failed"
            /\ settings = Unbound
            /\ \E e \in errors : e.loc = f /\ Shown(e.input) = Supplied(f)

C3_Witness ==
    /\ pc = "failed"
    /\ settings = Unbound
    /\ IsSupplied("HTTP_TIMEOUT") /\ Supplied("HTTP_TIMEOUT") = "thirty"
    /\ \E e \in errors :
          e.loc = "HTTP_TIMEOUT" /\ e.type = "int_parsing" /\ Shown(e.input) = "thirty"

(***************************************************************************)
(* C4.  An optional string field never makes the import fail, and in a     *)
(* loaded record it is absent when its text in force is exactly None, and  *)
(* is that text otherwise (the empty text and none included).              *)
(***************************************************************************)
C4_OptionalNone ==
    \A f \in OptionalFields :
        IsSupplied(f) =>
            /\ pc = "failed" => \A e \in errors : e.loc # f
            /\ pc = "loaded" =>
                  settings[f] = IF Supplied(f) = "None" THEN PyNone
                                ELSE PyStr(Supplied(f))

C4_Witness ==
    /\ pc = "loaded"
    /\ \E f, g \in OptionalFields :
          /\ ~EnvDefines(f) /\ FileDefines(f) /\ Supplied(f) = "None"
          /\ settings[f] = PyNone
          /\ EnvDefines(g) /\ Supplied(g) \in {"", "none"}
          /\ settings[g] = PyStr(Supplied(g))
          /\ settings[g] # PyNone

(***************************************************************************)
(* C5.  The record is read-only after construction: no step taken once it  *)
(* is bound changes any of its fields.                                     *)
(***************************************************************************)
C5_ReadOnly == [][pc = "loaded" => settings' = settings]_vars

(***************************************************************************)
(* C6.  Keys that name no declared field change nothing: the outcome of    *)
(* the import is the outcome it has with those keys removed from the       *)
(* environment and from the file.                                          *)
(***************************************************************************)
C6_UnknownKeysIgnored ==
    OutcomeIs(Without(environ, Keys \ Fields), FilesWithout(Keys \ Fields))

C6_Witness ==
    /\ pc = "loaded"
    /\ FileDefines("FOO_BAR")
    /\ \E f \in Fields : EnvDefines(f) /\ settings[f] = Coerced(f, environ[f])

(***************************************************************************)
(* C7.  The import never fails for want of configuration: every error      *)
(* entry is about a key that some source defines, none reports a missing   *)
(* field, and when no source defines a declared key the import succeeds,   *)
(* whether the .env file exists or not.                                    *)
(***************************************************************************)
C7_NeverMissing ==
    /\ pc = "failed" => \A e \in errors : e.type # "missing" /\ IsSupplied(e.loc)
    /\ (\A f \in Fields : ~IsSupplied(f)) => pc # "failed"

C7_Witness ==
    /\ pc = "loaded"
    /\ files = <<>>
    /\ \E f \in Fields : EnvDefines(f)
    /\ \E f \in Fields : ~EnvDefines(f) /\ settings[f] = TableDefault(f)

(***************************************************************************)
(* C8, as claimed.  A plain string field takes any text unchanged, the     *)
(* text None included: it raises no error, and in a loaded record the      *)
(* field is the text.                                                      *)
(***************************************************************************)
C8_Original ==
    \A f \in StrFields :
        IsSupplied(f) =>
            /\ pc = "failed" => \A e \in errors : e.loc # f
            /\ pc = "loaded" => settings[f] = PyStr(Supplied(f))

(***************************************************************************)
(* C8, amended.  A plain string field takes any text other than None       *)
(* unchanged (blanks around it and the empty text included).  The text     *)
(* None is parsed to the absent value for every field, so for a plain      *)
(* string field it makes the import fail with an error on that field.      *)
(***************************************************************************)
C8_RawUnlessNone ==
    \A f \in StrFields :
        IsSupplied(f) =>
            IF Supplied(f) = "None"
            THEN /\ pc # "loaded"
                 /\ pc = "failed" =>
                       \E e \in errors : e.loc = f /\ e.type = "string_type"
            ELSE /\ pc = "failed" => \A e \in errors : e.loc # f
                 /\ pc = "loaded" => settings[f] = PyStr(Supplied(f))

C8_Witness ==
    /\ pc = "loaded"
    /\ IsSupplied("ARGO_DAC") /\ Supplied("ARGO_DAC") = " aoml "
    /\ settings["ARGO_DAC"] = PyStr(" aoml ")
    /\ IsSupplied("LOG_LEVEL") /\ Supplied("LOG_LEVEL") = ""
    /\ settings["LOG_LEVEL"] = PyStr("")

(***************************************************************************)
(* C9.  Names are matched exact-case: a key that differs from a field's    *)
(* name in letter case only is an unknown key, so the outcome of the       *)
(* import is the outcome it has without such keys.                         *)
(***************************************************************************)
C9_ExactCase == OutcomeIs(Without(environ, CaseVariants), FilesWithout(CaseVariants))

C9_Witness ==
    /\ pc = "loaded"
    /\ EnvDefines("http_timeout") /\ environ["http_timeout"] = "thirty"
    /\ settings["HTTP_TIMEOUT"] = PyInt(30)

(***************************************************************************)
(* C10.  With no .env file and an environment that defines a set K of      *)
(* declared keys, a loaded record has the supplied value for the fields    *)
(* of K and the table's default for every other field.                     *)
(***************************************************************************)
C10_OthersAtDefault ==
    (pc = "loaded" /\ files = <<>>) =>
        \A f \in Fields :
            settings[f] = IF EnvDefines(f) THEN Coerced(f, environ[f])
                          ELSE TableDefault(f)

C10_Witness ==
    /\ pc = "loaded" /\ files = <<>>
    /\ DOMAIN environ = {"ARGO_DAC", "S3_BUCKET_NAME"}
    /\ settings["ARGO_DAC"] = PyStr(environ["ARGO_DAC"])
    /\ settings["S3_BUCKET_NAME"] = PyStr(environ["S3_BUCKET_NAME"])
    /\ \A f \in Fields \ DOMAIN environ : settings[f] = TableDefault(f)

====
